---------------------------- MODULE Spec2Model ----------------------------
(***************************************************************************)
(* Model of bin/coverage_report_single.py (class singleReport): the        *)
(* single sample coverage report.  main() runs load_files, snp_coverage    *)
(* (when VCFs are given), low_coverage_regions, low_exon_plot,             *)
(* all_gene_plots and generate_report in that order; an exception raised   *)
(* by a stage propagates out of main.                                      *)
(*                                                                         *)
(* A DataFrame is a sequence of rows (records keyed by column name), in    *)
(* row order.  A Python scalar whose type matters (chrom, threshold) is a  *)
(* tagged value: [t |-> "int", i |-> n, s |-> ""] or                       *)
(* [t |-> "str", i |-> 0, s |-> text].  Percentages of the exon stats      *)
(* file are floats; they are held in tenths of a percent (995 = 99.5).     *)
(***************************************************************************)
EXTENDS Integers, Sequences, FiniteSets, TLC

VARIABLES
    pc,             \* position of main(): see the actions for the values
    args,           \* parse_args(): [threshold, snps]
    cov_stats,      \* exon stats DataFrame
    cov_summary,    \* gene stats DataFrame (its "gene" column)
    raw_coverage,   \* raw coverage DataFrame
    snp_df,         \* concatenated VCF rows, or None
    snps_low_cov,   \* result of snp_coverage, or None
    snps_high_cov,  \* result of snp_coverage, or None
    low_raw_cov,    \* result of low_coverage_regions
    fig,            \* result of low_exon_plot: the subplot titles
    all_plots,      \* result of all_gene_plots: the genes plotted
    report,         \* what generate_report handed to build_report
    low_stats,      \* low_coverage_regions' local low_stats when it returned
    written,        \* number of times the report file was written
    error,          \* the exception that left main(), "" when none
    raised_by       \* the function that raised it, "" when none

\* What load_files and parse_args return: never assigned afterwards.
inputs == << args, cov_stats, cov_summary, raw_coverage, snp_df >>

vars == << pc, args, cov_stats, cov_summary, raw_coverage, snp_df,
           snps_low_cov, snps_high_cov, low_raw_cov, fig, all_plots,
           report, low_stats, written, error, raised_by >>

---------------------------------------------------------------------------
(* Bounds of the model. *)
MaxRaw == 2
MaxSnps == 2
MaxStats == 2
MaxGenes == 2

---------------------------------------------------------------------------
(* Python values. *)

PyIntVal(n) == [t |-> "int", i |-> n, s |-> ""]
PyStrVal(x) == [t |-> "str", i |-> 0, s |-> x]

\* str(v), Series.astype(str): an int becomes its decimal text.
PyStr(v) == IF v.t = "int" THEN PyStrVal(ToString(v.i)) ELSE v

\* The largest number a text of the model spells.
MaxParsed == 30

\* Whether int(v) succeeds: a str must spell a decimal number.
PyIntOk(v) == v.t = "int" \/ \E n \in 0..MaxParsed : ToString(n) = v.s

\* int(v), Series.astype(int) on one value.
PyInt(v) ==
    IF v.t = "int" THEN v.i
    ELSE CHOOSE n \in 0..MaxParsed : ToString(n) = v.s

\* int(x) of a float held in tenths: truncation toward zero.
PyIntOfTenths(x) == IF x >= 0 THEN x \div 10 ELSE -((-x) \div 10)

None == [is_none |-> TRUE, rows |-> << >>]
DataFrame(rows) == [is_none |-> FALSE, rows |-> rows]

---------------------------------------------------------------------------
(* pandas helpers. *)

\* The rows of s at the indices in keep, in row order.
RECURSIVE TakeRows(_, _, _)
TakeRows(s, keep, i) ==
    IF i > Len(s) THEN << >>
    ELSE (IF i \in keep THEN << s[i] >> ELSE << >>) \o TakeRows(s, keep, i + 1)

\* df[cols]: the projection of every row on the columns cols.
Project(s, cols) == [i \in 1..Len(s) |-> [c \in cols |-> s[i][c]]]

\* DataFrame.drop_duplicates(subset): the first row of each key is kept.
DropDuplicates_keep_all(s, subset) == s
DropDuplicates(s, subset) ==
    TakeRows(s, {i \in 1..Len(s) : \A j \in 1..(i - 1) :
                    [c \in subset |-> s[j][c]] # [c \in subset |-> s[i][c]]}, 1)

\* left.merge(right, on='chrom', how='left'): for every left row in order,
\* one row per right row with an equal key, in the right's order; a left row
\* with no partner is kept with NaN in the right's columns (nanRow).
RECURSIVE MergeLeft(_, _, _)
MergeLeft(left, right, nanRow) ==
    IF left = << >> THEN << >>
    ELSE LET l == Head(left)
             partners == SelectSeq(right, LAMBDA r : r.chrom = l.chrom)
             joined == IF partners = << >>
                       THEN << l @@ nanRow >>
                       ELSE [k \in 1..Len(partners) |->
                                l @@ partners[k] @@ [nan |-> FALSE]]
         IN joined \o MergeLeft(Tail(left), right, nanRow)

---------------------------------------------------------------------------
(* The inputs the model draws from. *)

\* All sequences over S of length at most n.
SeqsUpTo(S, n) == UNION {[1..k -> S] : k \in 0..n}

\* One line of the raw coverage file (load_files, names=column).
RawRow(chrom, gene, tx, exon, exon_start, exon_end, cov_start, cov_end, cov) ==
    [chrom |-> chrom, exon_start |-> exon_start, exon_end |-> exon_end,
     gene |-> gene, tx |-> tx, exon |-> exon,
     cov_start |-> cov_start, cov_end |-> cov_end, cov |-> cov]

\* Two buckets of BRCA1 exon 3, BRCA1 exon 4, a TP53 exon overlapping both,
\* a line whose chrom was read as text, and an exon on another chromosome.
RawRows ==
    { RawRow(PyIntVal(17), "BRCA1", "NM_1", 3, 100, 110, 100, 105, 15),
      RawRow(PyIntVal(17), "BRCA1", "NM_1", 3, 100, 110, 105, 110, 25),
      RawRow(PyIntVal(17), "BRCA1", "NM_1", 4, 120, 130, 120, 130, 20),
      RawRow(PyIntVal(17), "TP53", "NM_2", 1, 105, 125, 105, 125, 5),
      RawRow(PyStrVal("17"), "BRCA1", "NM_1", 3, 100, 110, 100, 105, 15),
      RawRow(PyStrVal("X"), "AR", "NM_3", 1, 100, 110, 100, 110, 25) }

\* One data line of a VCF (load_files, names=header).
VariantRow(chrom, snp_pos, id) ==
    [chrom |-> chrom, snp_pos |-> snp_pos, id |-> id, ref |-> "A", alt |-> "G"]

VariantRows ==
    { VariantRow(PyIntVal(17), 100, "rs1"),
      VariantRow(PyIntVal(17), 110, "rs2"),
      VariantRow(PyStrVal("17"), 100, "rs1"),
      VariantRow(PyStrVal("17"), 125, "rs3"),
      VariantRow(PyStrVal("17"), 99, "rs4"),
      VariantRow(PyStrVal("X"), 105, "rs5") }

---------------------------------------------------------------------------
(* snp_coverage *)

\* Series.astype(str) on the chrom column.
ChromAsStr(s) == [i \in 1..Len(s) |-> [s[i] EXCEPT !.chrom = PyStr(s[i].chrom)]]

ExonCols == {"chrom", "exon_start", "exon_end"}
ExonCovCols == {"gene", "exon", "chrom", "exon_start", "exon_end", "cov"}

\* exons: the unique exon coordinates, chrom as str.
snp_exons(raw) == ChromAsStr(DropDuplicates(Project(raw, ExonCols), ExonCols))

\* exons_cov: the unique (gene, exon, coordinates, cov) rows, chrom as str.
snp_exons_cov(raw) ==
    ChromAsStr(DropDuplicates(Project(raw, ExonCovCols), ExonCovCols))

\* The VCF columns of an exon no variant was merged to.
SnpNaN == [snp_pos |-> 0, id |-> "", ref |-> "", alt |-> "", nan |-> TRUE]
\* The coverage columns of a variant no exon was merged to.
CovNaN == [gene |-> "", exon |-> 0, exon_start |-> 0, exon_end |-> 0,
           cov |-> 0, nan |-> TRUE]

\* pandas refuses to merge a key column of str with one of int64; a column
\* read from VCFs is int64 when every chrom in it is a number.
MergeKeyConflict(left, right) ==
    /\ Len(left) > 0
    /\ Len(right) > 0
    /\ \A i \in 1..Len(left) : left[i].chrom.t = "str"
    /\ \A i \in 1..Len(right) : right[i].chrom.t = "int"

\* A comparison with NaN is False, so an exon without variants drops out.
InExon(r) == ~r.nan /\ r.snp_pos >= r.exon_start /\ r.snp_pos <= r.exon_end

\* snps: the variants inside an exon, one row per (exon, variant) match.
snps_in_capture(snp, raw) ==
    Project(SelectSeq(MergeLeft(snp_exons(raw), snp, SnpNaN), InExon),
            {"chrom", "snp_pos", "ref", "alt", "id"})

\* snp_cov: every exons_cov row of the variant's chromosome is joined to it.
snp_cov_merge(snp, raw) == MergeLeft(snps_in_capture(snp, raw), snp_exons_cov(raw), CovNaN)

\* The renamed columns of the report.
Renamed(r) ==
    [Gene |-> r.gene, Exon |-> r.exon, Chromosome |-> r.chrom,
     Position |-> r.snp_pos, Ref |-> r.ref, Alt |-> r.alt, ID |-> r.id,
     Coverage |-> r.cov]

\* snps_cov: one row per (chrom, snp_pos, ref, alt), the first one met.
snps_cov_table(snp, raw) ==
    LET d == DropDuplicates(
                 Project(snp_cov_merge(snp, raw),
                         {"gene", "exon", "chrom", "snp_pos", "ref", "alt", "id", "cov"}),
                 {"chrom", "snp_pos", "ref", "alt"})
    IN [i \in 1..Len(d) |-> Renamed(d[i])]

IsLow(r, threshold) == r.Coverage < threshold

\* The exception snp_coverage raises, "" when it returns.
snp_coverage_error(snp, raw, threshold) ==
    IF MergeKeyConflict(snp_exons(raw), snp) THEN "ValueError"
    ELSE IF threshold.t # "int" THEN "TypeError"
    ELSE ""

\* The (snps_low_cov, snps_high_cov) snp_coverage returns.
snp_coverage_result(snp, raw, threshold) ==
    LET t == snps_cov_table(snp, raw)
    IN [low |-> SelectSeq(t, LAMBDA r : IsLow(r, threshold.i)),
        high |-> SelectSeq(t, LAMBDA r : ~IsLow(r, threshold.i))]

\* main(): snp_coverage is called when VCFs were passed.
snp_coverage ==
    /\ pc = "loaded"
    /\ args.snps
    /\ LET e == snp_coverage_error(snp_df.rows, raw_coverage, args.threshold)
           r == snp_coverage_result(snp_df.rows, raw_coverage, args.threshold)
       IN IF e # ""
          THEN /\ pc' = "raised"
               /\ error' = e
               /\ raised_by' = "snp_coverage"
               /\ UNCHANGED << snps_low_cov, snps_high_cov >>
          ELSE /\ pc' = "snps_done"
               /\ snps_low_cov' = DataFrame(r.low)
               /\ snps_high_cov' = DataFrame(r.high)
               /\ UNCHANGED << error, raised_by >>
    /\ UNCHANGED << inputs, low_raw_cov, fig, all_plots, report, low_stats, written >>

\* Nothing has been computed, written or raised yet.
NothingComputed ==
    /\ snps_low_cov = None
    /\ snps_high_cov = None
    /\ low_raw_cov = << >>
    /\ fig = << >>
    /\ all_plots = << >>
    /\ report = << >>
    /\ low_stats = << >>
    /\ written = 0
    /\ error = ""
    /\ raised_by = ""

\* snp_coverage on its own: every raw coverage table and VCF table of the
\* bounds, the threshold an int.
InitSnp ==
    /\ pc = "loaded"
    /\ args \in [threshold : {PyIntVal(20), PyIntVal(30)}, snps : {TRUE}]
    /\ raw_coverage \in SeqsUpTo(RawRows, MaxRaw)
    /\ snp_df \in {DataFrame(v) : v \in SeqsUpTo(VariantRows, MaxSnps)}
    /\ cov_stats = << >>
    /\ cov_summary = << >>
    /\ NothingComputed

NextSnp == snp_coverage

SpecSnp == InitSnp /\ [][NextSnp]_vars

---------------------------------------------------------------------------
(* Claims about snp_coverage, checked under SpecSnp. *)

\* The rows snp_coverage returned, low then high.
SnpReported == snps_low_cov.rows \o snps_high_cov.rows

\* Variant v lies in the exon of raw coverage row e, chromosomes compared by
\* their text.
LiesInExon(v, e) ==
    /\ PyStr(e.chrom) = PyStr(v.chrom)
    /\ e.exon_start <= v.snp_pos
    /\ v.snp_pos <= e.exon_end

\* Row r of the result reports variant v.
Reports(r, v) ==
    /\ r.Chromosome = PyStr(v.chrom)
    /\ r.Position = v.snp_pos
    /\ r.Ref = v.ref
    /\ r.Alt = v.alt

\* C1: every row snp_coverage returns takes its Coverage, Gene and Exon from
\* a raw coverage row of the same chromosome whose exon interval contains
\* the variant's position.
C1_CoverageFromContainingExon ==
    pc = "snps_done" =>
        \A i \in 1..Len(SnpReported) :
            LET r == SnpReported[i]
            IN \E k \in 1..Len(raw_coverage) :
                   LET e == raw_coverage[k]
                   IN /\ PyStr(e.chrom) = r.Chromosome
                      /\ e.exon_start <= r.Position
                      /\ r.Position <= e.exon_end
                      /\ e.cov = r.Coverage
                      /\ e.gene = r.Gene
                      /\ e.exon = r.Exon

\* C4: a variant is in low or high if and only if raw_coverage holds an exon
\* interval of the same chromosome with exon_start <= snp_pos <= exon_end.
C4_ReportedIffInExon ==
    pc = "snps_done" =>
        \A i \in 1..Len(snp_df.rows) :
            LET v == snp_df.rows[i]
            IN (\E j \in 1..Len(SnpReported) : Reports(SnpReported[j], v))
               <=> (\E k \in 1..Len(raw_coverage) : LiesInExon(v, raw_coverage[k]))

\* Variant v was matched by the join of line 151: its chrom as loaded equals
\* the text of the exon's chrom, and its position is inside the exon.
Matched(v, e) ==
    /\ PyStr(e.chrom) = v.chrom
    /\ e.exon_start <= v.snp_pos
    /\ v.snp_pos <= e.exon_end

\* C5: every matched physical variant (chrom, position, ref, alt) has exactly
\* one row in low and high together, in low when its Coverage is below the
\* threshold and in high otherwise.
C5_OneRowPerVariant ==
    pc = "snps_done" =>
        /\ \A i \in 1..Len(snp_df.rows) :
               LET v == snp_df.rows[i]
               IN (\E k \in 1..Len(raw_coverage) : Matched(v, raw_coverage[k]))
                  => Cardinality({j \in 1..Len(SnpReported) :
                                     Reports(SnpReported[j], v)}) = 1
        /\ \A j \in 1..Len(snps_low_cov.rows) :
               snps_low_cov.rows[j].Coverage < args.threshold.i
        /\ \A j \in 1..Len(snps_high_cov.rows) :
               snps_high_cov.rows[j].Coverage >= args.threshold.i

\* A variant matched by two raw coverage rows, one with cov below the
\* threshold and one not, was reported.
C5_Witness ==
    /\ pc = "snps_done"
    /\ \E i \in 1..Len(snp_df.rows) : \E k1, k2 \in 1..Len(raw_coverage) :
           /\ Matched(snp_df.rows[i], raw_coverage[k1])
           /\ Matched(snp_df.rows[i], raw_coverage[k2])
           /\ raw_coverage[k1].cov < args.threshold.i
           /\ raw_coverage[k2].cov >= args.threshold.i
           /\ \E j \in 1..Len(SnpReported) : Reports(SnpReported[j], snp_df.rows[i])

\* C7: a variant whose chrom was loaded as an integer and whose position lies
\* in an exon interval of that chromosome is reported by snp_coverage.
C7_IntChromReported ==
    pc \in {"snps_done", "raised"} =>
        \A i \in 1..Len(snp_df.rows) :
            LET v == snp_df.rows[i]
            IN (/\ v.chrom.t = "int"
                /\ \E k \in 1..Len(raw_coverage) : LiesInExon(v, raw_coverage[k]))
               => /\ pc = "snps_done"
                  /\ \E j \in 1..Len(SnpReported) : Reports(SnpReported[j], v)

---------------------------------------------------------------------------
(* low_coverage_regions *)

\* One line of the exon stats file.  Of its depth columns the model keeps
\* "20x" and "30x", the percentages in tenths; min, mean, max and the other
\* depth columns are carried like these two and read by no condition.
StatRow(gene, tx, chrom, exon, exon_start, exon_end, x20, x30) ==
    [gene |-> gene, tx |-> tx, chrom |-> chrom, exon |-> exon,
     exon_start |-> exon_start, exon_end |-> exon_end]
    @@ ("20x" :> x20) @@ ("30x" :> x30)

\* The columns of the exon stats table, which an empty table has as well.
StatColumns ==
    {"gene", "tx", "chrom", "exon", "exon_start", "exon_end", "20x", "30x"}

\* BRCA1 exon 3 twice with different values, a fully covered exon, an exon
\* at 99.5 %, and, for a file that names chromosome X, an exon of X and one
\* of "17".
StatRows ==
    { StatRow("BRCA1", "NM_1", PyIntVal(17), 3, 100, 110, 800, 800),
      StatRow("BRCA1", "NM_1", PyIntVal(17), 3, 100, 110, 1000, 900),
      StatRow("BRCA1", "NM_1", PyIntVal(17), 4, 120, 130, 1000, 1000),
      StatRow("TP53", "NM_2", PyIntVal(17), 1, 105, 125, 995, 995),
      StatRow("BRCA1", "NM_1", PyStrVal("17"), 4, 120, 130, 900, 900),
      StatRow("AR", "NM_3", PyStrVal("X"), 1, 100, 110, 1000, 800) }

\* read_csv gives the chrom column of the exon stats one dtype: int64 when
\* every chrom is a number, str otherwise.
StatTables(n) ==
    {s \in SeqsUpTo(StatRows, n) :
        \A i, j \in 1..Len(s) : s[i].chrom.t = s[j].chrom.t}

\* str(threshold) + "x"
ThresholdColumn(threshold) == PyStr(threshold).s \o "x"

\* int(row[column]) < 100
Inadequate_or_equal(row, column) == PyIntOfTenths(row[column]) <= 100
Inadequate(row, column) == PyIntOfTenths(row[column]) < 100

\* The rows appended to the empty frame by the iterrows loop.
AppendedRows(stats, column) == SelectSeq(stats, LAMBDA row : Inadequate(row, column))

\* DataFrame.astype(dtypes): chrom becomes an int (exon, exon_start,
\* exon_end are whole numbers already and keep their value).
AsTypeInt(s) == [i \in 1..Len(s) |-> [s[i] EXCEPT !.chrom = PyIntVal(PyInt(s[i].chrom))]]

\* Whether astype(dtypes) succeeds on every row.
AsTypeIntOk(s) == \A i \in 1..Len(s) : PyIntOk(s[i].chrom)

\* low_exon_list: the (gene, exon) tuples of low_stats.
low_exon_list(stats) == [i \in 1..Len(stats) |-> << stats[i].gene, stats[i].exon >>]

\* Whether tuple x is in list l.
IsIn(x, l) == \E i \in 1..Len(l) : l[i] = x

\* raw_coverage[... .isin(low_exon_list)].reset_index(): the rows whose
\* (gene, exon) tuple is in the list, each with its old index in "index".
RECURSIVE SelectIsIn_per_match(_, _, _)
SelectIsIn_per_match(raw, l, i) ==
    IF i > Len(raw) THEN << >>
    ELSE LET hits == SelectSeq(l, LAMBDA x : x = << raw[i].gene, raw[i].exon >>)
         IN [k \in 1..Len(hits) |-> [index |-> i - 1] @@ raw[i]]
            \o SelectIsIn_per_match(raw, l, i + 1)
RECURSIVE SelectIsIn(_, _, _)
SelectIsIn(raw, l, i) ==
    IF i > Len(raw) THEN << >>
    ELSE (IF IsIn(<< raw[i].gene, raw[i].exon >>, l)
          THEN << [index |-> i - 1] @@ raw[i] >>
          ELSE << >>)
         \o SelectIsIn(raw, l, i + 1)

\* The exception low_coverage_regions raises, "" when it returns: row[threshold]
\* of the first row when the column is missing, astype when a chrom of
\* low_stats is no number.
low_coverage_regions_error(stats, threshold) ==
    LET column == ThresholdColumn(threshold)
    IN IF Len(stats) > 0 /\ column \notin DOMAIN stats[1] THEN "KeyError"
       ELSE IF ~AsTypeIntOk(AppendedRows(stats, column)) THEN "ValueError"
       ELSE ""

\* low_stats after astype.
low_coverage_regions_low_stats(stats, threshold) ==
    AsTypeInt(AppendedRows(stats, ThresholdColumn(threshold)))

\* The low_raw_cov low_coverage_regions returns.
low_coverage_regions_result(stats, raw, threshold) ==
    SelectIsIn(raw, low_exon_list(low_coverage_regions_low_stats(stats, threshold)), 1)

\* main(): get regions with low coverage.
low_coverage_regions ==
    /\ pc = "snps_done"
    /\ LET e == low_coverage_regions_error(cov_stats, args.threshold)
       IN IF e # ""
          THEN /\ pc' = "raised"
               /\ error' = e
               /\ raised_by' = "low_coverage_regions"
               /\ UNCHANGED << low_raw_cov, low_stats >>
          ELSE /\ pc' = "low_done"
               /\ low_stats' = low_coverage_regions_low_stats(cov_stats, args.threshold)
               /\ low_raw_cov' =
                      low_coverage_regions_result(cov_stats, raw_coverage, args.threshold)
               /\ UNCHANGED << error, raised_by >>
    /\ UNCHANGED << inputs, snps_low_cov, snps_high_cov, fig, all_plots, report, written >>

\* The thresholds drawn: the default 20 (an int), values given on the command
\* line (str), one of them naming no column.
Thresholds == {PyIntVal(20), PyIntVal(30), PyStrVal("30"), PyStrVal("25")}

\* low_coverage_regions on its own: every exon stats table and raw coverage
\* table of the bounds.
InitLow ==
    /\ pc = "snps_done"
    /\ args \in [threshold : Thresholds, snps : {FALSE}]
    /\ cov_stats \in StatTables(MaxStats)
    /\ raw_coverage \in SeqsUpTo(RawRows, MaxRaw)
    /\ snp_df = None
    /\ cov_summary = << >>
    /\ NothingComputed

NextLow == low_coverage_regions

SpecLow == InitLow /\ [][NextLow]_vars

---------------------------------------------------------------------------
(* Claims about low_coverage_regions, checked under SpecLow. *)

\* The threshold names a column of the exon stats table.
KnownThreshold == ThresholdColumn(args.threshold) \in StatColumns

\* The indices of the exon stats rows below 100 % in the threshold column.
BelowHundred == {i \in 1..Len(cov_stats) : cov_stats[i][ThresholdColumn(args.threshold)] < 1000}

\* Rows a and b of the exon stats agree in every column, chrom by its text.
SameExonRow(a, b) ==
    /\ \A c \in StatColumns \ {"chrom"} : a[c] = b[c]
    /\ PyStr(a.chrom) = PyStr(b.chrom)

\* C2: when the threshold names a column, low_coverage_regions treats a row
\* as inadequate if and only if its value in that column is strictly less
\* than 100.
C2_InadequateIffBelowHundred ==
    (pc = "low_done" /\ KnownThreshold) =>
        /\ Len(low_stats) = Cardinality(BelowHundred)
        /\ \A i \in 1..Len(cov_stats) :
               (i \in BelowHundred)
               <=> \E j \in 1..Len(low_stats) : SameExonRow(low_stats[j], cov_stats[i])

\* An exon stats table with a row at 80 %, or 99.5 %, and a row at 100 % was
\* classified.
C2_Witness ==
    /\ pc = "low_done"
    /\ KnownThreshold
    /\ BelowHundred # {}
    /\ BelowHundred # 1..Len(cov_stats)

\* The (gene, exon) pairs of the inadequate exon set.
LowPairs == {<< low_stats[j].gene, low_stats[j].exon >> : j \in 1..Len(low_stats)}

\* C3: the table low_coverage_regions returns is the subsequence of the
\* raw_coverage rows whose (gene, exon) pair is in the inadequate set: all of
\* them, no other, in the original order, each once.
C3_LowRawCovIsSubsequence ==
    pc = "low_done" =>
        /\ \A k \in 1..Len(low_raw_cov) :
               LET i == low_raw_cov[k].index + 1
               IN /\ i \in 1..Len(raw_coverage)
                  /\ low_raw_cov[k] = [index |-> i - 1] @@ raw_coverage[i]
                  /\ << raw_coverage[i].gene, raw_coverage[i].exon >> \in LowPairs
        /\ \A k \in 1..(Len(low_raw_cov) - 1) :
               low_raw_cov[k].index < low_raw_cov[k + 1].index
        /\ \A i \in 1..Len(raw_coverage) :
               << raw_coverage[i].gene, raw_coverage[i].exon >> \in LowPairs
               => \E k \in 1..Len(low_raw_cov) : low_raw_cov[k].index = i - 1

\* Two inadequate rows share a (gene, exon) pair, and raw_coverage holds a row
\* of that pair and a row of another exon.
C3_Witness ==
    /\ pc = "low_done"
    /\ Len(low_stats) = 2
    /\ Cardinality(LowPairs) = 1
    /\ Len(raw_coverage) = 2
    /\ Len(low_raw_cov) = 1

\* C8: when the threshold names no depth column of the exon stats table, an
\* empty table included, low_coverage_regions fails with an error and returns
\* nothing.
C8_UnknownThresholdRaises ==
    (pc \in {"low_done", "raised"} /\ ~KnownThreshold) =>
        /\ pc = "raised"
        /\ raised_by = "low_coverage_regions"

---------------------------------------------------------------------------
(* low_exon_plot and all_gene_plots *)

\* The texts of the model in Python's string order.
SortedStrings == << "17", "AR", "BRCA1", "NM_1", "NM_2", "NM_3", "TP53", "X" >>
StrRank(x) == CHOOSE i \in 1..Len(SortedStrings) : SortedStrings[i] = x

\* sorted(genes, key=(gene, exon)) of a set of (gene, exon) tuples.
PairLess(a, b) ==
    \/ StrRank(a[1]) < StrRank(b[1])
    \/ a[1] = b[1] /\ a[2] < b[2]
RECURSIVE SortPairs(_)
SortPairs(S) ==
    IF S = {} THEN << >>
    ELSE LET m == CHOOSE x \in S : \A y \in S \ {x} : PairLess(x, y)
         IN << m >> \o SortPairs(S \ {m})

\* max() of the cov column.
MaxCov(rows) ==
    CHOOSE m \in {rows[i].cov : i \in 1..Len(rows)} :
        \A i \in 1..Len(rows) : rows[i].cov <= m

\* max(low_raw_cov["cov"].tolist()) raises on an empty list.
low_exon_plot_error(low) == IF Len(low) = 0 THEN "ValueError" ELSE ""

\* The figure: one subplot per (gene, exon), four to a row.
low_exon_plot_result(low) ==
    LET genes == SortPairs({<< low[i].gene, low[i].exon >> : i \in 1..Len(low)})
    IN [plot_titles |-> genes,
        max_y |-> MaxCov(low),
        rows |-> (Len(genes) + 3) \div 4]

\* main(): generate plot of sub optimal regions.
low_exon_plot ==
    /\ pc = "low_done"
    /\ IF low_exon_plot_error(low_raw_cov) # ""
       THEN /\ pc' = "raised"
            /\ error' = low_exon_plot_error(low_raw_cov)
            /\ raised_by' = "low_exon_plot"
            /\ UNCHANGED fig
       ELSE /\ pc' = "fig_done"
            /\ fig' = low_exon_plot_result(low_raw_cov)
            /\ UNCHANGED << error, raised_by >>
    /\ UNCHANGED << inputs, snps_low_cov, snps_high_cov, low_raw_cov, all_plots,
                    report, low_stats, written >>

\* The distinct genes of raw_coverage in sorted order.
SortedGenes(raw) ==
    SelectSeq(SortedStrings, LAMBDA g : \E i \in 1..Len(raw) : raw[i].gene = g)

\* The loop over the genes: a gene with one exon is plotted from exon_cov,
\* which is bound only once a gene with several exons has been plotted.
RECURSIVE GenePlots(_, _, _)
GenePlots(genes, raw, bound) ==
    IF genes = << >> THEN [error |-> "", plots |-> << >>]
    ELSE LET gene == Head(genes)
             exons == {raw[i].exon : i \in {j \in 1..Len(raw) : raw[j].gene = gene}}
             rest == GenePlots(Tail(genes), raw, TRUE)
         IN IF Cardinality(exons) = 1 /\ ~bound
            THEN [error |-> "UnboundLocalError", plots |-> << >>]
            ELSE [error |-> rest.error, plots |-> << gene >> \o rest.plots]

\* main(): generate plots of each full gene.
all_gene_plots ==
    /\ pc = "fig_done"
    /\ LET r == GenePlots(SortedGenes(raw_coverage), raw_coverage, FALSE)
       IN IF r.error # ""
          THEN /\ pc' = "raised"
               /\ error' = r.error
               /\ raised_by' = "all_gene_plots"
               /\ UNCHANGED all_plots
          ELSE /\ pc' = "plots_done"
               /\ all_plots' = r.plots
               /\ UNCHANGED << error, raised_by >>
    /\ UNCHANGED << inputs, snps_low_cov, snps_high_cov, low_raw_cov, fig,
                    report, low_stats, written >>

---------------------------------------------------------------------------
(* generate_report *)

KeyCols == {"gene", "tx", "chrom", "exon", "exon_start", "exon_end"}
ValueCols == {"20x", "30x"}

\* The index of a row: its group key.
GroupKey(row) == [c \in KeyCols |-> row[c]]

\* The order of the group keys: gene, tx, chrom, exon, exon_start, exon_end.
KeyRank(k) ==
    << StrRank(k.gene), StrRank(k.tx),
       IF k.chrom.t = "int" THEN k.chrom.i ELSE StrRank(k.chrom.s),
       k.exon, k.exon_start, k.exon_end >>
KeyLess(a, b) ==
    \E n \in 1..6 :
        /\ \A m \in 1..(n - 1) : KeyRank(a)[m] = KeyRank(b)[m]
        /\ KeyRank(a)[n] < KeyRank(b)[n]
RECURSIVE SortKeys(_)
SortKeys(S) ==
    IF S = {} THEN << >>
    ELSE LET m == CHOOSE x \in S : \A y \in S \ {x} : KeyLess(x, y)
         IN << m >> \o SortKeys(S \ {m})

\* The sum and the number of the values of column c in the rows of a group.
RECURSIVE GroupTotal(_, _, _)
GroupTotal(rows, key, c) ==
    IF rows = << >> THEN [sum |-> 0, n |-> 0]
    ELSE LET t == GroupTotal(Tail(rows), key, c)
         IN IF GroupKey(Head(rows)) = key
            THEN [sum |-> t.sum + Head(rows)[c], n |-> t.n + 1]
            ELSE t

\* aggfunc of pd.pivot_table, by default the mean: held as sum over n.
Aggregate_first(rows, key, c) ==
    [sum |-> SelectSeq(rows, LAMBDA r : GroupKey(r) = key)[1][c], n |-> 1]
Aggregate(rows, key, c) == GroupTotal(rows, key, c)

\* A view that keeps every input row as a row of its own, ungrouped.
PivotTable_per_row(rows) ==
    [k \in 1..Len(rows) |->
        GroupKey(rows[k]) @@ [c \in ValueCols |-> [sum |-> rows[k][c], n |-> 1]]]

\* pd.pivot_table(rows, index=KeyCols, values=ValueCols), reindexed and
\* with the index reset: one row per group key, in the order of the keys.
PivotTable(rows) ==
    LET keys == SortKeys({GroupKey(rows[i]) : i \in 1..Len(rows)})
    IN [k \in 1..Len(keys) |->
           keys[k] @@ [c \in ValueCols |-> Aggregate(rows, keys[k], c)]]

\* sub_20x: the rows below 100 % in the column "20x", whatever the threshold.
Sub20x(stats) == AppendedRows(stats, "20x")

\* sub_20_stats['20x'].apply(int): the mean as a whole percentage.
IntOf20x(view) ==
    [k \in 1..Len(view) |->
        [view[k] EXCEPT !["20x"] = view[k]["20x"].sum \div (view[k]["20x"].n * 10)]]

\* The exception generate_report raises, "" when it writes the report: astype
\* on a chrom of sub_20x that is no number, and the truth value of a
\* DataFrame in "if snps_low_cov:".
generate_report_error(stats, low, high) ==
    IF ~AsTypeIntOk(Sub20x(stats)) THEN "ValueError"
    ELSE IF ~low.is_none \/ ~high.is_none THEN "ValueError"
    ELSE ""

\* The tables and report_vals handed to build_report.
generate_report_result(stats, summary, threshold) ==
    LET sub_20x == AsTypeInt(Sub20x(stats))
        total_stats == PivotTable(stats)
        sub_20_stats == PivotTable(sub_20x)
    IN [total_stats |-> total_stats,
        sub_20_stats |-> sub_20_stats,
        sub_20_html |-> IntOf20x(sub_20_stats),
        sub_20x |-> sub_20x,
        total_genes |-> Len(summary),
        gene_issues |-> Cardinality({sub_20_stats[k].gene : k \in 1..Len(sub_20_stats)}),
        exon_issues |-> Len(sub_20_stats),
        threshold |-> PyStr(threshold).s]

\* generate_report with the report file opened and written before the
\* tables are computed: a failure leaves a report behind.
generate_report_writes_first ==
    /\ pc = "plots_done"
    /\ written' = written + 1
    /\ LET e == generate_report_error(cov_stats, snps_low_cov, snps_high_cov)
       IN IF e # ""
          THEN /\ pc' = "raised"
               /\ error' = e
               /\ raised_by' = "generate_report"
               /\ UNCHANGED report
          ELSE /\ pc' = "written"
               /\ report' = << generate_report_result(cov_stats, cov_summary,
                                                       args.threshold) >>
               /\ UNCHANGED << error, raised_by >>
    /\ UNCHANGED << inputs, snps_low_cov, snps_high_cov, low_raw_cov, fig,
                    all_plots, low_stats >>

\* main(): generate report.
generate_report ==
    /\ pc = "plots_done"
    /\ LET e == generate_report_error(cov_stats, snps_low_cov, snps_high_cov)
       IN IF e # ""
          THEN /\ pc' = "raised"
               /\ error' = e
               /\ raised_by' = "generate_report"
               /\ UNCHANGED << report, written >>
          ELSE /\ pc' = "written"
               /\ report' = << generate_report_result(cov_stats, cov_summary,
                                                       args.threshold) >>
               /\ written' = written + 1
               /\ UNCHANGED << error, raised_by >>
    /\ UNCHANGED << inputs, snps_low_cov, snps_high_cov, low_raw_cov, fig,
                    all_plots, low_stats >>

\* One line of the gene stats file: its gene column.
GeneRows == {[gene |-> "BRCA1"], [gene |-> "TP53"]}

\* generate_report on its own.  main() reaches it with an exon stats table
\* that has a row and a threshold that names a column (low_coverage_regions
\* and low_exon_plot returned), and with both variant tables or neither.
InitReport ==
    /\ pc = "plots_done"
    /\ args \in [threshold : {t \in Thresholds : ThresholdColumn(t) \in StatColumns},
                 snps : BOOLEAN]
    /\ cov_stats \in StatTables(MaxStats) \ {<< >>}
    /\ cov_summary \in SeqsUpTo(GeneRows, MaxGenes)
    /\ raw_coverage = << >>
    /\ snp_df = IF args.snps THEN DataFrame(<< >>) ELSE None
    /\ snps_low_cov = snp_df
    /\ snps_high_cov = snp_df
    /\ low_raw_cov = << >>
    /\ fig = << >>
    /\ all_plots = << >>
    /\ report = << >>
    /\ low_stats = << >>
    /\ written = 0
    /\ error = ""
    /\ raised_by = ""

NextReport == generate_report

SpecReport == InitReport /\ [][NextReport]_vars

---------------------------------------------------------------------------
(* main *)

\* The command lines of the model: no --threshold (the default, the int 20)
\* or one given as text, naming a column or not; --snps given or not.
MainThresholds == {PyIntVal(20), PyStrVal("30"), PyStrVal("25")}

\* The files of the model.
MainStatRows ==
    { StatRow("BRCA1", "NM_1", PyIntVal(17), 3, 100, 110, 800, 800),
      StatRow("BRCA1", "NM_1", PyIntVal(17), 3, 100, 110, 1000, 900),
      StatRow("BRCA1", "NM_1", PyIntVal(17), 4, 120, 130, 1000, 1000) }
MainRawRows ==
    { RawRow(PyIntVal(17), "BRCA1", "NM_1", 3, 100, 110, 100, 105, 15),
      RawRow(PyIntVal(17), "BRCA1", "NM_1", 4, 120, 130, 120, 130, 20) }
MainVariantRows ==
    { VariantRow(PyIntVal(17), 100, "rs1"),
      VariantRow(PyStrVal("17"), 100, "rs1") }
MainGeneTables == { << [gene |-> "BRCA1"] >>, << [gene |-> "BRCA1"], [gene |-> "BRCA1"] >> }

\* args = report.parse_args()
parse_args ==
    /\ pc = "start"
    /\ pc' = "parsed"
    /\ args' \in [threshold : MainThresholds, snps : BOOLEAN]
    /\ UNCHANGED << cov_stats, cov_summary, raw_coverage, snp_df, snps_low_cov,
                    snps_high_cov, low_raw_cov, fig, all_plots, report, low_stats,
                    written, error, raised_by >>

\* report.load_files(...): the tables read from the files; snp_df is None
\* when no VCF was passed.
load_files ==
    /\ pc = "parsed"
    /\ pc' = "loaded"
    /\ cov_stats' \in SeqsUpTo(MainStatRows, MaxStats)
    /\ cov_summary' \in MainGeneTables
    /\ raw_coverage' \in SeqsUpTo(MainRawRows, MaxRaw)
    /\ IF args.snps
       THEN snp_df' \in {DataFrame(v) : v \in SeqsUpTo(MainVariantRows, MaxSnps)}
       ELSE snp_df' = None
    /\ UNCHANGED << args, snps_low_cov, snps_high_cov, low_raw_cov, fig, all_plots,
                    report, low_stats, written, error, raised_by >>

\* main(): no VCF passed, snps_low_cov, snps_high_cov = None, None.
no_snps ==
    /\ pc = "loaded"
    /\ ~args.snps
    /\ pc' = "snps_done"
    /\ snps_low_cov' = None
    /\ snps_high_cov' = None
    /\ UNCHANGED << inputs, low_raw_cov, fig, all_plots, report, low_stats,
                    written, error, raised_by >>

Init ==
    /\ pc = "start"
    /\ args = [threshold |-> PyIntVal(20), snps |-> FALSE]
    /\ cov_stats = << >>
    /\ cov_summary = << >>
    /\ raw_coverage = << >>
    /\ snp_df = None
    /\ NothingComputed

Next ==
    \/ parse_args
    \/ load_files
    \/ snp_coverage
    \/ no_snps
    \/ low_coverage_regions
    \/ low_exon_plot
    \/ all_gene_plots
    \/ generate_report

Spec == Init /\ [][Next]_vars

---------------------------------------------------------------------------
(* Claims about main, checked under Spec. *)

\* No exon of the exon stats is inadequate at the threshold (none at all when
\* the table is empty).
NoInadequate == KnownThreshold /\ BelowHundred = {}

\* low_coverage_regions has been called.
AfterLowCoverageRegions ==
    \/ pc \in {"low_done", "fig_done", "plots_done", "written"}
    \/ pc = "raised" /\ raised_by \notin {"snp_coverage"}

\* C9: when no exon is inadequate at the threshold, low_coverage_regions
\* returns an empty table without error, and low_exon_plot, the stage that
\* takes that table, completes on it without raising.
C9_EmptyLowAccepted ==
    (NoInadequate /\ AfterLowCoverageRegions) =>
        /\ low_raw_cov = << >>
        /\ raised_by \notin {"low_coverage_regions", "low_exon_plot"}

---------------------------------------------------------------------------
(* Claims about generate_report, checked under SpecReport. *)

\* C6: the inadequate set generate_report uses for the inadequate-only table
\* and for gene_issues and exon_issues is the set of exons inadequate at the
\* configured threshold, the one the report displays.
C6_InadequateAtThreshold ==
    pc = "written" =>
        /\ report[1].threshold \o "x" = ThresholdColumn(args.threshold)
        /\ \A i \in 1..Len(cov_stats) :
               (i \in BelowHundred)
               <=> \E j \in 1..Len(report[1].sub_20x) :
                       SameExonRow(report[1].sub_20x[j], cov_stats[i])
        /\ report[1].gene_issues = Cardinality({cov_stats[i].gene : i \in BelowHundred})

\* The indices of the rows of table rows that have group key key.
GroupOf(rows, key) == {i \in 1..Len(rows) : GroupKey(rows[i]) = key}

\* The sum of column c over the rows at the indices in I.
RECURSIVE SumAt(_, _, _)
SumAt(rows, I, c) ==
    IF I = {} THEN 0
    ELSE LET i == CHOOSE x \in I : TRUE
         IN rows[i][c] + SumAt(rows, I \ {i}, c)

\* view has exactly one row for every distinct group key of rows.
OneRowPerKey(view, rows) ==
    /\ {GroupKey(view[k]) : k \in 1..Len(view)} = {GroupKey(rows[i]) : i \in 1..Len(rows)}
    /\ \A k1, k2 \in 1..Len(view) : GroupKey(view[k1]) = GroupKey(view[k2]) => k1 = k2

\* Every row of view holds the values of one single row of rows with its key.
ValuesOfOneRow(view, rows) ==
    \A k \in 1..Len(view) :
        \E i \in GroupOf(rows, GroupKey(view[k])) :
            \A c \in ValueCols : view[k][c].sum = rows[i][c] * view[k][c].n

\* Every value of view is the mean of its column over the rows with its key.
ValuesAreMeans(view, rows) ==
    \A k \in 1..Len(view) : \A c \in ValueCols :
        LET I == GroupOf(rows, GroupKey(view[k]))
        IN /\ view[k][c].n = Cardinality(I)
           /\ view[k][c].sum = SumAt(rows, I, c)

\* C10 as stated: each pivoted view has one row per distinct group key, with
\* the metric values of one single input row of that key.
C10_PivotKeepsOneRow ==
    pc = "written" =>
        /\ OneRowPerKey(report[1].total_stats, cov_stats)
        /\ OneRowPerKey(report[1].sub_20_stats, report[1].sub_20x)
        /\ ValuesOfOneRow(report[1].total_stats, cov_stats)
        /\ ValuesOfOneRow(report[1].sub_20_stats, report[1].sub_20x)

\* C10 amended: each pivoted view has one row per distinct group key, and
\* each metric value of it is the mean of that metric over all the input
\* rows of that key.
C10_PivotAverages ==
    pc = "written" =>
        /\ OneRowPerKey(report[1].total_stats, cov_stats)
        /\ OneRowPerKey(report[1].sub_20_stats, report[1].sub_20x)
        /\ ValuesAreMeans(report[1].total_stats, cov_stats)
        /\ ValuesAreMeans(report[1].sub_20_stats, report[1].sub_20x)

\* The report was built from exon stats with two rows of one group key and
\* different values.
C10_Witness ==
    /\ pc = "written"
    /\ Len(cov_stats) = 2
    /\ cov_stats[1] # cov_stats[2]
    /\ Len(report[1].total_stats) = 1

\* C11: total_genes equals the number of distinct gene values of the gene
\* summary table, also when a gene occurs in more than one row.
C11_TotalGenesDistinct ==
    pc = "written" =>
        report[1].total_genes
            = Cardinality({cov_summary[i].gene : i \in 1..Len(cov_summary)})

\* The group keys of the rows generate_report holds inadequate (sub_20x).
InadequateKeys ==
    {GroupKey(report[1].sub_20x[i]) : i \in 1..Len(report[1].sub_20x)}

\* C12 as stated: exon_issues equals the number of rows of the inadequate
\* exon set, so that two inadequate rows sharing a key are both counted.
C12_ExonIssuesCountsRows ==
    pc = "written" => report[1].exon_issues = Len(report[1].sub_20x)

\* C12: exon_issues equals the number of rows of the pivoted inadequate-only
\* view, that is the number of distinct group keys among the inadequate rows:
\* inadequate rows sharing a key are counted once.
C12_ExonIssuesCountsKeys ==
    pc = "written" =>
        /\ report[1].exon_issues = Len(report[1].sub_20_stats)
        /\ report[1].exon_issues = Cardinality(InadequateKeys)

\* Two inadequate input rows share one key, and the report is written.
C12_Witness ==
    /\ pc = "written"
    /\ Len(report[1].sub_20x) = 2
    /\ Cardinality(InadequateKeys) = 1
    /\ report[1].exon_issues = 1

\* A run of main with a VCF whose chrom column was read as text, and the
\* default whole-number threshold.
WellFormedVariantRun ==
    /\ pc \notin {"start", "parsed"}
    /\ args.snps
    /\ args.threshold.t = "int"
    /\ ~snp_df.is_none
    /\ \A i \in 1..Len(snp_df.rows) : snp_df.rows[i].chrom.t = "str"

\* C13: in a run of main with well-formed inputs and a variant list, whether
\* or not a variant lies in the capture, snp_coverage returns its tables
\* without error and generate_report accepts them: neither of the two raises.
C13_VariantTablesAccepted ==
    (WellFormedVariantRun /\ pc = "raised") =>
        raised_by \notin {"snp_coverage", "generate_report"}

\* The position of main() from which each position is entered when the stage
\* before it returns.
StageBefore(p) ==
    CASE p = "parsed" -> "start"
      [] p = "loaded" -> "parsed"
      [] p = "snps_done" -> "loaded"
      [] p = "low_done" -> "snps_done"
      [] p = "fig_done" -> "low_done"
      [] p = "plots_done" -> "fig_done"
      [] p = "written" -> "plots_done"
      [] OTHER -> "none"

\* The report is there exactly when main() has run to its end without error,
\* and a raised exception leaves main() with no report.
ReportOnlyAtEnd ==
    /\ written \in {0, 1}
    /\ written = 1 <=> pc = "written"
    /\ report # << >> <=> pc = "written"
    /\ pc = "written" =>
          /\ error = "" /\ raised_by = ""
          /\ args.snps <=> ~snps_low_cov.is_none
          /\ args.snps <=> ~snp_df.is_none
    /\ pc = "raised" <=> error # ""
    /\ pc = "raised" <=> raised_by # ""

\* Each step of main() either completes the next stage in the order load,
\* variants, low coverage, low exon plot, gene plots, report, or raises from a
\* stage and writes nothing; the report is written by the last stage alone,
\* and nothing happens after the report or an exception.
StagesInOrder ==
    /\ pc \notin {"written", "raised"}
    /\ pc' # pc
    /\ IF pc' = "raised"
       THEN /\ pc # "start"
            /\ error' # ""
            /\ written' = written /\ report' = report
       ELSE /\ pc = StageBefore(pc')
            /\ error' = ""
    /\ written' # written =>
          /\ written' = written + 1
          /\ pc = "plots_done" /\ pc' = "written"
    /\ (pc = "loaded" /\ pc' = "snps_done") =>
          (args.snps <=> ~snps_low_cov'.is_none)

\* C14: in every run of main the report is written at most once, and only
\* after loading, variant intersection (when variants are given), low
\* coverage extraction, both plotting stages and the summary computation
\* have completed in that order without error; when a stage fails, the
\* exception ends main and no report is written.
C14_ReportWrittenOnceAtEnd == [] ReportOnlyAtEnd /\ [][StagesInOrder]_vars

\* A run of main that wrote its report.
C14_Witness ==
    /\ pc = "written"
    /\ written = 1
    /\ report # << >>
    /\ fig # << >>
    /\ all_plots # << >>

===========================================================================
